---- MODULE Spec2Model ----
(***************************************************************************)
(* Model of the `fixed` attribute macro of the fixed-size crate            *)
(* (src/src/lib.rs): Args::parse builds the configuration from the         *)
(* attribute's argument list, Args::fold_field rewrites the fields of the  *)
(* annotated struct, and `fixed` composes the two.                         *)
(***************************************************************************)
EXTENDS Naturals, Sequences, FiniteSets

\* Longest argument list and longest field list that are enumerated.
MaxArgs == 2
MaxFields == 2

VARIABLES
    args,       \* the attribute's argument list: the ExprAssign entries, in order
    pc,         \* position of the invocation of `fixed`
    cursor,     \* number of entries the ParseStream `input` has consumed
    i,          \* index of the next entry the for loop of Args::parse takes
    size_map,   \* Args::parse's local size_map (Args.size_map once parsed)
    typ,        \* Args::parse's local typ (Args.typ once parsed)
    result,     \* outcome of Args::parse
    item,       \* the ItemStruct's fields, once parsed
    output,     \* what `fixed` returns to the compiler
    output2     \* what a second application of the same attribute returns

vars == <<args, pc, cursor, i, size_map, typ, result, item, output, output2>>

--------------------------------------------------------------------------
(* Syntax trees *)

\* Option<Ident>::None
NoIdent == ""

PathExpr(segs) == [kind |-> "Path", segs |-> segs, lit |-> "None", val |-> 0]
IntLit(n) == [kind |-> "Lit", segs |-> <<>>, lit |-> "Int", val |-> n]
StrLit == [kind |-> "Lit", segs |-> <<>>, lit |-> "Str", val |-> 0]
Assign(l, r) == [left |-> l, right |-> r]

NoArgs == [k |-> "None", n |-> 0, t |-> ""]
ConstArg(n) == [k |-> "Const", n |-> n, t |-> ""]
TypeArg(t) == [k |-> "Type", n |-> 0, t |-> t]
\* Type::Path: the path's segments and the generic arguments of its last one.
TypePath(segs, arg) == [kind |-> "Path", segs |-> segs, arg |-> arg]
\* Type::Reference to a path type: a type that is not a Type::Path.
TypeRef(segs) == [kind |-> "Reference", segs |-> segs, arg |-> NoArgs]

MkField(id, ty, vis, attrs) == [ident |-> id, ty |-> ty, vis |-> vis, attrs |-> attrs]

\* Path::get_ident: the identifier of a single-segment path.
get_ident(segs) == IF Len(segs) = 1 THEN segs[1] ELSE NoIdent

\* Path::is_ident: a single segment, without arguments, equal to `name`.
is_ident(ty, name) == Len(ty.segs) = 1 /\ ty.segs[1] = name /\ ty.arg = NoArgs

ERRMSG == "Must specify an Ident=Int or typ=Structname"
DefaultTyp == "ArrayString"

--------------------------------------------------------------------------
(* Inputs *)

Entries ==
    { Assign(PathExpr(<<"name">>), IntLit(4)),
      Assign(PathExpr(<<"name">>), IntLit(8)),
      Assign(PathExpr(<<"id">>), IntLit(2)),
      Assign(PathExpr(<<"typ">>), PathExpr(<<"Custom">>)),
      Assign(PathExpr(<<"typ">>), PathExpr(<<"String">>)),
      Assign(PathExpr(<<"typ">>), IntLit(4)),
      Assign(PathExpr(<<"name">>), StrLit),
      Assign(IntLit(3), PathExpr(<<"Foo">>)),
      Assign(PathExpr(<<"name">>), PathExpr(<<"Foo">>)),
      Assign(PathExpr(<<"typ">>), PathExpr(<<"a", "b">>)),
      Assign(PathExpr(<<"a", "b">>), IntLit(4)),
      Assign(PathExpr(<<"a", "b">>), PathExpr(<<"Foo">>)) }

NamedFields ==
    { MkField("name", TypePath(<<"String">>, NoArgs), "pub", <<"serde">>),
      MkField("name", TypePath(<<"std", "string", "String">>, NoArgs), "", <<>>),
      MkField("name", TypeRef(<<"String">>), "", <<>>),
      MkField("id", TypePath(<<"i32">>, NoArgs), "pub", <<>>),
      MkField("id", TypePath(<<"Option">>, TypeArg("String")), "", <<"doc">>),
      MkField("typ", TypePath(<<"String">>, NoArgs), "", <<>>) }

UnnamedFields ==
    { MkField(NoIdent, TypePath(<<"String">>, NoArgs), "pub", <<>>) }

SeqsUpTo(S, n) == UNION { [1..k -> S] : k \in 0..n }

ArgLists == SeqsUpTo(Entries, MaxArgs)

\* A struct has named fields or it is a tuple struct.
Structs == SeqsUpTo(NamedFields, MaxFields) \cup SeqsUpTo(UnnamedFields, MaxFields)

--------------------------------------------------------------------------
(* Args::parse *)

EmptyMap == [k \in {} |-> 0]

\* Mutant of Insert: entry().or_insert(), which keeps the value of a key
\* that is present.
Insert_keepfirst(m, key, num) ==
    [k \in DOMAIN m \cup {key} |-> IF k \in DOMAIN m THEN m[k] ELSE num]

\* HashMap::insert: overwrites the value of a key that is present.
Insert(m, key, num) ==
    [k \in DOMAIN m \cup {key} |-> IF k = key THEN num ELSE m[k]]

NoResult == [kind |-> "None", msg |-> "", span |-> 0]
\* input.error(ERRMSG): an error at the current position of the stream.
InputError(pos) == [kind |-> "Err", msg |-> ERRMSG, span |-> pos + 1]
OkResult == [kind |-> "Ok", msg |-> "", span |-> 0]
PanicResult == [kind |-> "Panic", msg |-> "", span |-> 0]

NoOutput == [kind |-> "None", fields |-> <<>>, msg |-> "", span |-> 0]

Init ==
    /\ args \in ArgLists
    /\ pc = "start"
    /\ cursor = 0
    /\ i = 1
    /\ size_map = EmptyMap
    /\ typ = DefaultTyp
    /\ result = NoResult
    /\ item = <<>>
    /\ output = NoOutput
    /\ output2 = NoOutput

\* Punctuated::parse_terminated consumes the stream to its end.
ParseTerminated ==
    /\ pc = "start"
    /\ pc' = "loop"
    /\ cursor' = Len(args)
    /\ i' = 1
    /\ size_map' = EmptyMap
    /\ typ' = DefaultTyp
    /\ UNCHANGED <<args, result, item, output, output2>>

InLoop == pc = "loop" /\ i <= Len(args)

\* The unwrap of get_ident on the left-hand path, in both Path arms.
UnwrapPanics(var) ==
    /\ var.left.kind = "Path"
    /\ var.right.kind \in {"Lit", "Path"}
    /\ get_ident(var.left.segs) = NoIdent

\* (Expr::Path, Expr::Lit) with an integer literal.
IsSizeEntry(var) ==
    /\ var.left.kind = "Path"
    /\ var.right.kind = "Lit"
    /\ get_ident(var.left.segs) # NoIdent
    /\ var.right.lit = "Int"

\* (Expr::Path, Expr::Path) with key typ and an identifier value.
IsTypEntry(var) ==
    /\ var.left.kind = "Path"
    /\ var.right.kind = "Path"
    /\ get_ident(var.left.segs) = "typ"
    /\ get_ident(var.right.segs) # NoIdent

\* The four `return Err(input.error(ERRMSG))` of the match.
IsErrEntry(var) ==
    \/ /\ var.left.kind = "Path" /\ var.right.kind = "Lit"
       /\ get_ident(var.left.segs) # NoIdent
       /\ var.right.lit # "Int"
    \/ /\ var.left.kind = "Path" /\ var.right.kind = "Path"
       /\ get_ident(var.left.segs) # NoIdent
       /\ get_ident(var.left.segs) # "typ"
    \/ /\ var.left.kind = "Path" /\ var.right.kind = "Path"
       /\ get_ident(var.left.segs) = "typ"
       /\ get_ident(var.right.segs) = NoIdent
    \/ ~(var.left.kind = "Path" /\ var.right.kind \in {"Lit", "Path"})

\* Mutant of InsertSize: the reserved name typ is refused as a size key.
InsertSize_typ_reserved ==
    /\ InLoop
    /\ IsSizeEntry(args[i])
    /\ IF get_ident(args[i].left.segs) = "typ"
       THEN /\ result' = InputError(cursor)
            /\ pc' = "err"
            /\ UNCHANGED <<i, size_map>>
       ELSE /\ size_map' = Insert(size_map, get_ident(args[i].left.segs), args[i].right.val)
            /\ i' = i + 1
            /\ UNCHANGED <<pc, result>>
    /\ UNCHANGED <<args, cursor, typ, item, output, output2>>

InsertSize ==
    /\ InLoop
    /\ IsSizeEntry(args[i])
    /\ size_map' = Insert(size_map, get_ident(args[i].left.segs), args[i].right.val)
    /\ i' = i + 1
    /\ UNCHANGED <<args, pc, cursor, typ, result, item, output, output2>>

SetTyp ==
    /\ InLoop
    /\ IsTypEntry(args[i])
    /\ typ' = get_ident(args[i].right.segs)
    /\ i' = i + 1
    /\ UNCHANGED <<args, pc, cursor, size_map, result, item, output, output2>>

ParseErr ==
    /\ InLoop
    /\ IsErrEntry(args[i])
    /\ result' = InputError(cursor)
    /\ pc' = "err"
    /\ UNCHANGED <<args, cursor, i, size_map, typ, item, output, output2>>

ParsePanic ==
    /\ InLoop
    /\ UnwrapPanics(args[i])
    /\ result' = PanicResult
    /\ pc' = "panic"
    /\ UNCHANGED <<args, cursor, i, size_map, typ, item, output, output2>>

\* Ok(Args { size_map, typ })
ParseOk ==
    /\ pc = "loop"
    /\ i > Len(args)
    /\ result' = OkResult
    /\ pc' = "parsed"
    /\ UNCHANGED <<args, cursor, i, size_map, typ, item, output, output2>>

--------------------------------------------------------------------------
(* Args::fold_field and fixed *)

\* Mutant of ReplacementType: the default type name is hard-coded.
ReplacementType_default(t, num) == TypePath(<<DefaultTyp>>, ConstArg(num))

\* parse_quote!{#typ::<#num>}
ReplacementType(t, num) == TypePath(<<t>>, ConstArg(num))

\* Mutant of IsStringPath: only the bare identifier String matches.
IsStringPath_exact(ty) == ty.kind = "Path" /\ is_ident(ty, "String")

\* Mutant of IsStringPath: the type is not required to be a Type::Path.
IsStringPath_anykind(ty) ==
    is_ident(ty, "String") \/ ty.segs[Len(ty.segs)] = "String"

IsStringPath(ty) ==
    /\ ty.kind = "Path"
    /\ (is_ident(ty, "String") \/ ty.segs[Len(ty.segs)] = "String")

\* Mutant of fold_field: a String field is rewritten whether or not its name
\* is a key, with capacity 0 when it is not.
fold_field_nokey(self, input) ==
    IF input.ident # NoIdent /\ IsStringPath(input.ty)
    THEN [attrs |-> input.attrs,
          vis |-> input.vis,
          ident |-> input.ident,
          ty |-> ReplacementType(self.typ,
                    IF input.ident \in DOMAIN self.size_map
                    THEN self.size_map[input.ident] ELSE 0)]
    ELSE input

\* Mutant of fold_field: the replacement is appended to the matched path
\* instead of replacing it.
fold_field_append(self, input) ==
    IF /\ input.ident # NoIdent
       /\ input.ident \in DOMAIN self.size_map
       /\ IsStringPath(input.ty)
    THEN [attrs |-> input.attrs,
          vis |-> input.vis,
          ident |-> input.ident,
          ty |-> TypePath(input.ty.segs \o <<self.typ>>,
                          ConstArg(self.size_map[input.ident]))]
    ELSE input

fold_field(self, input) ==
    IF /\ input.ident # NoIdent
       /\ input.ident \in DOMAIN self.size_map
       /\ IsStringPath(input.ty)
    THEN [attrs |-> input.attrs,
          vis |-> input.vis,
          ident |-> input.ident,
          ty |-> ReplacementType(self.typ, self.size_map[input.ident])]
    ELSE input

\* Fold::fold_item_struct: fold_field over the fields, in order.
fold_item_struct(self, fields) ==
    [j \in 1..Len(fields) |-> fold_field(self, fields[j])]

Self == [size_map |-> size_map, typ |-> typ]

\* parse_macro_input!(args as Args) on Err: the error's compile_error!.
FixedReturnError ==
    /\ pc = "err"
    /\ output' = [kind |-> "CompileError", fields |-> <<>>,
                  msg |-> result.msg, span |-> result.span]
    /\ pc' = "failed"
    /\ UNCHANGED <<args, cursor, i, size_map, typ, result, item, output2>>

\* parse_macro_input!(input as ItemStruct)
ParseItemStruct ==
    /\ pc = "parsed"
    /\ item' \in Structs
    /\ pc' = "fold"
    /\ UNCHANGED <<args, cursor, i, size_map, typ, result, output, output2>>

\* args.fold_item_struct(input) and quote!(#output)
FoldAndEmit ==
    /\ pc = "fold"
    /\ output' = [kind |-> "Struct", fields |-> fold_item_struct(Self, item),
                  msg |-> "", span |-> 0]
    /\ pc' = "emitted"
    /\ UNCHANGED <<args, cursor, i, size_map, typ, result, item, output2>>

\* The same attribute applied to the emitted struct: the same argument list
\* parses to the same Args, which folds the emitted fields.
FixedAgain ==
    /\ pc = "emitted"
    /\ output2' = [kind |-> "Struct", fields |-> fold_item_struct(Self, output.fields),
                   msg |-> "", span |-> 0]
    /\ pc' = "refolded"
    /\ UNCHANGED <<args, cursor, i, size_map, typ, result, item, output>>

Next ==
    \/ ParseTerminated
    \/ InsertSize
    \/ SetTyp
    \/ ParseErr
    \/ ParsePanic
    \/ ParseOk
    \/ FixedReturnError
    \/ ParseItemStruct
    \/ FoldAndEmit
    \/ FixedAgain

Spec == Init /\ [][Next]_vars

--------------------------------------------------------------------------
(* Vocabulary of the properties, stated on the syntax alone *)

Terminal == {"failed", "panic", "emitted", "refolded"}
Parsed == {"parsed", "fold", "emitted", "refolded"}
Emitted == {"emitted", "refolded"}

\* f = n with f a bare identifier and n an integer literal
SizeAssign(e) == e.left.kind = "Path" /\ Len(e.left.segs) = 1
                 /\ e.right.kind = "Lit" /\ e.right.lit = "Int"
\* typ = X with X a bare identifier
TypAssign(e) == e.left = PathExpr(<<"typ">>)
                /\ e.right.kind = "Path" /\ Len(e.right.segs) = 1
\* typ = n with n an integer literal
TypInt(e) == e.left = PathExpr(<<"typ">>) /\ e.right.kind = "Lit" /\ e.right.lit = "Int"
WellFormed(l) == \A j \in 1..Len(l) : SizeAssign(l[j]) \/ TypAssign(l[j])

\* A declared type that reads as the variable-length string type
StringTyped(ty) == ty.kind = "Path" /\ ty.segs[Len(ty.segs)] = "String"
\* A field the configuration selects for rewriting
Selected(f) == f.ident # NoIdent /\ f.ident \in DOMAIN size_map /\ StringTyped(f.ty)
Keyed(f) == f.ident # NoIdent /\ f.ident \in DOMAIN size_map

SizeIdx(l, k) == { j \in 1..Len(l) : SizeAssign(l[j]) /\ l[j].left.segs = <<k>> }
TypIdx(l) == { j \in 1..Len(l) : TypAssign(l[j]) }
MaxOf(S) == CHOOSE m \in S : \A x \in S : x <= m
SizeKeys(l) == { l[j].left.segs[1] : j \in { x \in 1..Len(l) : SizeAssign(l[x]) } }
LastTyp(l) == IF TypIdx(l) = {} THEN "ArrayString" ELSE l[MaxOf(TypIdx(l))].right.segs[1]

--------------------------------------------------------------------------
(* Properties *)

\* C1 (exact substitution): in the emitted struct every selected field (its
\* name is a key of size_map with value n and its type is a path ending in
\* String) has type replacement_type::<n> with its name, visibility and
\* attributes unchanged, every other field is unchanged, and the fields are
\* the input's fields in the input's order.
C1_ExactSubstitution ==
    pc \in Emitted =>
        /\ output.kind = "Struct"
        /\ Len(output.fields) = Len(item)
        /\ \A j \in 1..Len(item) :
              /\ output.fields[j].ident = item[j].ident
              /\ output.fields[j].vis = item[j].vis
              /\ output.fields[j].attrs = item[j].attrs
              /\ Selected(item[j]) =>
                    output.fields[j].ty =
                        [kind |-> "Path", segs |-> <<typ>>,
                         arg |-> [k |-> "Const", n |-> size_map[item[j].ident], t |-> ""]]
              /\ ~Selected(item[j]) => output.fields[j] = item[j]

\* A struct with a qualified and a bare String field, one of them selected,
\* has been emitted.
C1_Witness ==
    /\ pc = "emitted"
    /\ Len(item) = 2
    /\ \E j \in 1..2 : Selected(item[j]) /\ Len(item[j].ty.segs) = 3
                       /\ item[j].ty # output.fields[j].ty
    /\ \E j \in 1..2 : ~Selected(item[j]) /\ item[j].ident # NoIdent

\* C2 (identity on a non-matching configuration): when the argument list is
\* empty the configuration is the empty map with the default type, and when
\* it is empty or no key of size_map names a field the emitted struct equals
\* the input, whatever replacement_type is.
C2_IdentityOnNonMatching ==
    /\ (pc \in Parsed /\ args = <<>>) => (DOMAIN size_map = {} /\ typ = "ArrayString")
    /\ (pc \in Emitted /\ (args = <<>> \/ \A k \in DOMAIN size_map :
                                             \A j \in 1..Len(item) : item[j].ident # k))
          => (output.kind = "Struct" /\ output.fields = item)

\* A struct with a String field was emitted under a configuration with a key
\* and a custom type, none of whose keys names a field.
C2_Witness ==
    /\ pc = "emitted"
    /\ DOMAIN size_map # {}
    /\ typ # "ArrayString"
    /\ \A k \in DOMAIN size_map : \A j \in 1..Len(item) : item[j].ident # k
    /\ \E j \in 1..Len(item) : item[j].ident # NoIdent /\ StringTyped(item[j].ty)

Rejected(e) ==
    \/ e.left.kind = "Path" /\ Len(e.left.segs) = 1
       /\ e.right.kind = "Lit" /\ e.right.lit # "Int"
    \/ e.left.kind # "Path"
    \/ e.left.kind = "Path" /\ Len(e.left.segs) = 1 /\ e.left.segs # <<"typ">>
       /\ e.right.kind = "Path" /\ Len(e.right.segs) = 1
    \/ e.left = PathExpr(<<"typ">>) /\ e.right.kind = "Path" /\ Len(e.right.segs) # 1

\* C4 (malformed argument rejected atomically): when any entry of the list,
\* at any position, has one of the rejected shapes, the parse ends with the
\* fixed diagnostic as an error, no configuration is produced and no struct
\* is emitted.
C4_MalformedRejected ==
    (\E j \in 1..Len(args) : Rejected(args[j])) =>
        /\ pc \notin Parsed
        /\ output.kind # "Struct"
        /\ pc \in Terminal => (result.kind = "Err" /\ result.msg = ERRMSG)

\* C5 (replacement type name): every rewritten field gets ArrayString::<n>
\* when the list has no typ=identifier entry and X::<n> when it has typ=X
\* (the last such entry), wherever in the list the size entries stand.
C5_ReplacementTypeName ==
    pc \in Emitted =>
        \A j \in 1..Len(item) :
            Selected(item[j]) =>
                /\ output.fields[j].ty.kind = "Path"
                /\ output.fields[j].ty.segs = <<LastTyp(args)>>
                /\ output.fields[j].ty.arg.k = "Const"

\* A field was rewritten to a custom type whose typ= entry follows the
\* field's size entry.
C5_Witness ==
    /\ pc = "emitted"
    /\ Len(args) = 2 /\ SizeAssign(args[1]) /\ TypAssign(args[2])
    /\ \E j \in 1..Len(item) :
          /\ Selected(item[j])
          /\ item[j].ident = args[1].left.segs[1]
          /\ output.fields[j].ty.segs = <<"Custom">>

\* C6 (last write wins): a well-formed list never ends in an error, and the
\* parsed configuration has exactly the keys of the list's size entries, each
\* with the integer of the last entry of that key, and the identifier of the
\* last typ= entry (the default without one).
C6_LastWriteWins ==
    /\ WellFormed(args) => pc \notin {"err", "failed", "panic"}
    /\ pc \in Parsed =>
          /\ result.kind = "Ok"
          /\ DOMAIN size_map = SizeKeys(args)
          /\ \A k \in SizeKeys(args) : size_map[k] = args[MaxOf(SizeIdx(args, k))].right.val
          /\ typ = LastTyp(args)

\* A list that assigns one key twice, with different integers, has parsed.
C6_Witness ==
    /\ pc = "parsed"
    /\ Len(args) = 2
    /\ SizeAssign(args[1]) /\ SizeAssign(args[2])
    /\ args[1].left = args[2].left
    /\ args[1].right.val # args[2].right.val

\* C7 (non-identifier path on the left): an entry whose left side is a path
\* that is not a bare identifier, met by the loop, ends the parse with the
\* fixed diagnostic as an error value; the parser never ends abnormally.
C7_PathKeyRejected ==
    /\ pc # "panic"
    /\ (pc \in Terminal /\ i <= Len(args)
        /\ args[i].left.kind = "Path" /\ Len(args[i].left.segs) > 1)
          => (result.kind = "Err" /\ result.msg = ERRMSG)

\* Index of the first entry that is neither f=n nor typ=X.
FirstOffending(l) == CHOOSE j \in 1..Len(l) :
    /\ ~(SizeAssign(l[j]) \/ TypAssign(l[j]))
    /\ \A x \in 1..(j - 1) : SizeAssign(l[x]) \/ TypAssign(l[x])

\* C8 (error location): the reported parse error references the position of
\* the first offending entry of the list.
C8_ErrorAtOffendingEntry ==
    result.kind = "Err" => result.span = FirstOffending(args)

\* C9 (typ is reserved only before an identifier): the loop accepts an entry
\* typ=n, n an integer, by setting size_map[typ] = n and leaving typ alone;
\* an entry typ=X, X an identifier, leaves size_map alone; and a String
\* field named typ is rewritten when typ is a key.
C9_TypIntIsSizeEntry ==
    /\ [][ /\ (InLoop /\ TypInt(args[i])) =>
                /\ pc' = "loop" /\ i' = i + 1 /\ result' = result
                /\ "typ" \in DOMAIN size_map'
                /\ size_map'["typ"] = args[i].right.val
                /\ typ' = typ
           /\ (InLoop /\ TypAssign(args[i])) => (pc' = "loop" /\ size_map' = size_map)
         ]_vars
    /\ [](pc \in Emitted =>
            \A j \in 1..Len(item) :
                (item[j].ident = "typ" /\ "typ" \in DOMAIN size_map
                 /\ StringTyped(item[j].ty))
                    => output.fields[j].ty.arg = [k |-> "Const", n |-> size_map["typ"], t |-> ""])

\* A String field named typ was rewritten under a list with the entry typ=4
\* and no typ=identifier entry.
C9_Witness ==
    /\ pc = "emitted"
    /\ \E j \in 1..Len(args) : TypInt(args[j])
    /\ typ = "ArrayString"
    /\ \E j \in 1..Len(item) :
          /\ item[j].ident = "typ"
          /\ output.fields[j].ty = [kind |-> "Path", segs |-> <<"ArrayString">>,
                                    arg |-> [k |-> "Const", n |-> 4, t |-> ""]]

\* C10 (idempotence): applying the attribute to the emitted struct with the
\* same configuration emits the same struct.
C10_Idempotent ==
    pc = "refolded" => output2 = output

\* The struct was rewritten to a type named String, which the second
\* application selects again.
C10_Witness ==
    /\ pc = "refolded"
    /\ typ = "String"
    /\ \E j \in 1..Len(item) :
          /\ item[j].ty # output.fields[j].ty
          /\ Selected(output.fields[j])

====
